---- MODULE Spec2Model ----
(***************************************************************************)
(* The serial-controlled game of pygametiro.py (host side) and the button  *)
(* firmware of shooting_game/thonnygame.py (device side).                  *)
(*                                                                         *)
(* Host: SerialController (open, update, _handle_line, consume_shot).      *)
(* Device: SimpleButton (debounce, DOWN / UP / HELD lines) and its loop.   *)
(*                                                                         *)
(* A byte is a one-character string; "xFF" is a byte that is not valid     *)
(* UTF-8.  A bytes object and a str are sequences of such characters.      *)
(***************************************************************************)
EXTENDS Integers, Sequences, FiniteSets, TLC

VARIABLES
    \* ---- host: SerialController fields
    conn,            \* "open" | "None"   (self.conn)
    buffer,          \* self.buffer
    left,            \* self.left
    right,           \* self.right
    shoot,           \* self.shoot
    reported_error,  \* self.reported_error
    \* ---- host: environment and observation
    wire,            \* bytes the device has written and the host has not read yet
    received,        \* every byte read_all has returned so far, in order
    handled,         \* every line passed to _handle_line so far, in order
    logs,            \* number of "[Serial] Disconnected" messages printed
    chunk,           \* the bytes the last update read that was given a chunk (PollChunk)
    chunkLines,      \* the lines that update passed to _handle_line, in order
    last,            \* what happened last: "write" (the device wrote), or the outcome of
                     \* the last call: "no_conn", "no_data", "data", "joined" (data that
                     \* completed a line begun by an earlier read), "SerialException",
                     \* "raised" (an error left update), "shot", "no_shot"
    \* ---- device: one SimpleButton and the loop that polls it
    btn,             \* the SimpleButton's fields
    now,             \* device clock (time.ticks_ms) the next loop iteration reads
    \* ---- device: observation
    uptime,          \* milliseconds since boot at the next loop iteration (no wrap)
    ticks,           \* loop iterations done
    sent,            \* lines sent by the last loop iteration, in order
    rawSeen,         \* the pin level of the last sample
    constSince,      \* uptime of the sample that began the current run of equal levels
    bounced,         \* the run before the current one was shorter than the debounce window
    lastEdge,        \* "DOWN" / "UP": the last transition sent ("none" before the first)
    annAt,           \* uptime of the last DOWN or HELD sent since the last UP, or None
    edges,           \* number of DOWN and UP lines sent (counted up to MaxEdges)
    \* ---- the device linked to the game
    rawChanges,      \* number of changes of the pin level sampled
    \* ---- host: the game loop of main (times in milliseconds)
    elapsed,         \* elapsed
    last_shot_time,  \* last_shot_time
    frameAt,         \* time of the next iteration of the game loop
    fired,           \* bullets created so far
    pressShots,      \* bullets created from the shoot flag since the last C DOWN handled
    pressLines,      \* C DOWN and C HELD lines handled since (and with) the last C DOWN
    \* ---- host: the rest of main's state (positions in pixels, score in thousandths)
    pc,              \* where main's loop is: "tick" (line 175), "events" (179), "keys" (188),
                     \* "world" (205), or "exited" (sys.exit)
    player_x,        \* player_rect.x  (player_rect.y never changes)
    obstacles,       \* obstacles: records [x, y, immune]
    bullets,         \* bullets: records [x, y]
    score,           \* score
    game_over,       \* game_over
    spawn_interval,  \* spawn_interval
    \* ---- host: observation of the game loop
    frames,          \* iterations of the loop begun
    events,          \* what pygame.event.get() returned, until the keys are read
    keys,            \* the keys pygame.key.get_pressed() reported, until the next iteration
    calls,           \* the controller's methods and flags used so far in this iteration
    hits,            \* the obstacles the collision pass of this iteration destroyed:
                     \* [ob, bullet (index)], until the next iteration
    firedAt          \* elapsed at the last bullet creation of this game, or None

hostVars == <<conn, buffer, left, right, shoot, reported_error,
              wire, received, handled, logs, last>>

devVars == <<btn, now, uptime, ticks, sent, rawSeen, constSince, bounced, lastEdge,
             annAt, edges>>

gameVars == <<elapsed, last_shot_time, frameAt, fired, pressShots, pressLines>>

lineVars == <<chunk, chunkLines>>

worldVars == <<pc, player_x, obstacles, bullets, score, game_over, spawn_interval,
               frames, events, keys, calls, hits, firedAt>>

linkVars == <<rawChanges, gameVars, lineVars, worldVars>>

vars == <<hostVars, devVars, linkVars>>

-----------------------------------------------------------------------------
(* Bounds *)

\* Longest byte stream the device writes in one behaviour.
MaxBytes == 12

\* The log counter stops counting here (it is 0 or 1 when the code is right).
MaxLogs == 2

\* Loop iterations of the device in one behaviour.
MaxTicks == 46

\* Loop iterations of the device in one behaviour of the device linked to the game.
MaxLinkTicks == 66

\* Changes of the pin level in one behaviour of the device linked to the game.
MaxRawChanges == 2

\* The counter of DOWN and UP lines stops counting here.
MaxEdges == 3

\* Longest line of which every re-casing is tried.
MaxRecased == 7

-----------------------------------------------------------------------------
(* Text helpers: bytes.decode, str.strip, str.upper, str.split *)

NL == "\n"

Whitespace == {" ", "\t", "\r", "\n"}

Range(s) == {s[i] : i \in DOMAIN s}

\* bytes.decode("utf-8", errors="ignore"): undecodable bytes are dropped
Decode(bs) == SelectSeq(bs, LAMBDA b : b # "xFF")

RECURSIVE LStrip(_)
LStrip(s) ==
    IF s # <<>> /\ Head(s) \in Whitespace THEN LStrip(Tail(s)) ELSE s

RECURSIVE RStrip(_)
RStrip(s) ==
    IF s # <<>> /\ s[Len(s)] \in Whitespace
    THEN RStrip(SubSeq(s, 1, Len(s) - 1))
    ELSE s

\* str.strip()
Strip(s) == RStrip(LStrip(s))

LowerCase ==
    <<"a", "b", "c", "d", "e", "f", "g", "h", "i", "j", "k", "l", "m",
      "n", "o", "p", "q", "r", "s", "t", "u", "v", "w", "x", "y", "z">>

UpperCase ==
    <<"A", "B", "C", "D", "E", "F", "G", "H", "I", "J", "K", "L", "M",
      "N", "O", "P", "Q", "R", "S", "T", "U", "V", "W", "X", "Y", "Z">>

UpperOf == [c \in Range(LowerCase) |-> UpperCase[CHOOSE i \in 1..26 : LowerCase[i] = c]]

\* str.upper()
Upper(s) == [i \in DOMAIN s |-> IF s[i] \in DOMAIN UpperOf THEN UpperOf[s[i]] ELSE s[i]]

\* str.split(): the maximal runs of non-whitespace characters
RECURSIVE SplitFrom(_, _, _)
SplitFrom(s, cur, acc) ==
    IF s = <<>>
    THEN IF cur = <<>> THEN acc ELSE Append(acc, cur)
    ELSE IF Head(s) \in Whitespace
         THEN SplitFrom(Tail(s), <<>>, IF cur = <<>> THEN acc ELSE Append(acc, cur))
         ELSE SplitFrom(Tail(s), Append(cur, Head(s)), acc)

Split(s) == SplitFrom(s, <<>>, <<>>)

DOWN == <<"D", "O", "W", "N">>
HELD == <<"H", "E", "L", "D">>
UP == <<"U", "P">>

-----------------------------------------------------------------------------
(* SerialController._handle_line, on the flags [left, right, shoot] *)

\* (mutation) a channel with no known state counts as pressed
HandleLine_Lenient(st, line) ==
    IF line = <<>>
    THEN st
    ELSE LET parts == Split(Upper(line))
             name == parts[1]
             state == IF Len(parts) > 1 THEN parts[2] ELSE <<>>
         IN  CASE name = <<"A">> -> [st EXCEPT !.left = state # UP]
               [] name = <<"B">> -> [st EXCEPT !.right = state # UP]
               [] name = <<"C">> -> [st EXCEPT !.shoot = st.shoot \/ state # UP]
               [] OTHER -> st

\* (mutation) DOWN and HELD flip the movement flag
HandleLine_Toggle(st, line) ==
    IF line = <<>>
    THEN st
    ELSE LET parts == Split(Upper(line))
             name == parts[1]
             state == IF Len(parts) > 1 THEN parts[2] ELSE <<>>
         IN  CASE name = <<"A">> /\ state \in {DOWN, HELD} -> [st EXCEPT !.left = ~st.left]
               [] name = <<"A">> /\ state = UP -> [st EXCEPT !.left = FALSE]
               [] name = <<"B">> /\ state \in {DOWN, HELD} -> [st EXCEPT !.right = ~st.right]
               [] name = <<"B">> /\ state = UP -> [st EXCEPT !.right = FALSE]
               [] name = <<"C">> /\ state \in {DOWN, HELD} -> [st EXCEPT !.shoot = TRUE]
               [] OTHER -> st

\* (mutation) C UP withdraws the pending shot
HandleLine_UpClears(st, line) ==
    IF line = <<>>
    THEN st
    ELSE LET parts == Split(Upper(line))
             name == parts[1]
             state == IF Len(parts) > 1 THEN parts[2] ELSE <<>>
         IN  CASE name = <<"A">> /\ state \in {DOWN, HELD, UP} -> [st EXCEPT !.left = state # UP]
               [] name = <<"B">> /\ state \in {DOWN, HELD, UP} -> [st EXCEPT !.right = state # UP]
               [] name = <<"C">> /\ state \in {DOWN, HELD, UP} -> [st EXCEPT !.shoot = state # UP]
               [] OTHER -> st

\* (mutation) the line is not upper-cased
HandleLine_CaseSensitive(st, line) ==
    IF line = <<>>
    THEN st
    ELSE LET parts == Split(line)
             name == parts[1]
             state == IF Len(parts) > 1 THEN parts[2] ELSE <<>>
         IN  CASE name = <<"A">> /\ state \in {DOWN, HELD, UP} -> [st EXCEPT !.left = state # UP]
               [] name = <<"B">> /\ state \in {DOWN, HELD, UP} -> [st EXCEPT !.right = state # UP]
               [] name = <<"C">> /\ state \in {DOWN, HELD} -> [st EXCEPT !.shoot = TRUE]
               [] OTHER -> st

HandleLine(st, line) ==
    IF line = <<>>
    THEN st
    ELSE LET parts == Split(Upper(line))
             name == parts[1]
             state == IF Len(parts) > 1 THEN parts[2] ELSE <<>>
         IN  CASE name = <<"A">> ->
                    IF state \in {DOWN, HELD} THEN [st EXCEPT !.left = TRUE]
                    ELSE IF state = UP THEN [st EXCEPT !.left = FALSE]
                    ELSE st
               [] name = <<"B">> ->
                    IF state \in {DOWN, HELD} THEN [st EXCEPT !.right = TRUE]
                    ELSE IF state = UP THEN [st EXCEPT !.right = FALSE]
                    ELSE st
               [] name = <<"C">> ->
                    IF state \in {DOWN, HELD} THEN [st EXCEPT !.shoot = TRUE]
                    ELSE st
               [] OTHER -> st

\* index of the first newline byte of buf (buf holds one)
FirstNL(buf) == CHOOSE i \in DOMAIN buf : buf[i] = NL /\ \A j \in 1..(i - 1) : buf[j] # NL

\* the while loop of update: split on the first newline, handle the line, repeat
RECURSIVE Drain(_, _, _)
Drain(buf, st, hl) ==
    IF NL \in Range(buf)
    THEN LET i == FirstNL(buf)
             line == Strip(Decode(SubSeq(buf, 1, i - 1)))
         IN  Drain(SubSeq(buf, i + 1, Len(buf)), HandleLine(st, line), Append(hl, line))
    ELSE [buffer |-> buf, st |-> st, handled |-> hl]

Flags == [left |-> left, right |-> right, shoot |-> shoot]

\* the flags after __init__
NoFlags == [left |-> FALSE, right |-> FALSE, shoot |-> FALSE]

-----------------------------------------------------------------------------
(* The lines the device can write (thonnygame.py send) and their variants *)

Pieces ==
    { <<"A", " ", "D", "O", "W", "N", "\n">>,
      <<"A", " ", "U", "P", "\n">>,
      <<"B", " ", "H", "E", "L", "D", "\n">>,
      <<"xFF", "B", " ", "U", "P", "\n">>,
      <<"C", " ", "D", "O", "W", "N", "\n">>,
      <<"c", " ", "h", "e", "l", "d", "\r", "\n">>,
      <<"C", " ", "U", "P", "\n">>,
      <<"\n">> }


-----------------------------------------------------------------------------
(* Lines a poll can meet: the device's lines, variants of them, and text    *)
(* that is no event.  "x2014" is the dash of the line thonnygame.py sends   *)
(* at start (line 77).                                                      *)

\* the lines send writes for a button: a channel and a state
EventLines ==
    { <<"A", " ", "D", "O", "W", "N">>,
      <<"A", " ", "H", "E", "L", "D">>,
      <<"A", " ", "U", "P">>,
      <<"B", " ", "D", "O", "W", "N">>,
      <<"B", " ", "H", "E", "L", "D">>,
      <<"B", " ", "U", "P">>,
      <<"C", " ", "D", "O", "W", "N">>,
      <<"C", " ", "H", "E", "L", "D">>,
      <<"C", " ", "U", "P">> }

\* the same lines in other letter cases, with a carriage return or more blanks
RecasedLines ==
    { <<"a", " ", "d", "o", "w", "n">>,
      <<"A", " ", "D", "o", "w", "n">>,
      <<"b", " ", "h", "E", "l", "D">>,
      <<"c", " ", "H", "e", "l", "d">>,
      <<"b", " ", "u", "p">>,
      <<"A", " ", "D", "O", "W", "N", "\r">>,
      <<" ", "B", " ", " ", "U", "P", " ">> }

\* empty and whitespace-only lines
BlankLines ==
    { <<>>,
      <<" ", "\t">>,
      <<"\r">> }

\* lines whose first token is no channel (lines 77 and 88 of thonnygame.py among them)
OtherLines ==
    { <<"X", " ", "D", "O", "W", "N">>,
      <<"S", "t", "a", "r", "t", "e", "d", " ", "x2014", " ", "m", "o",
          "n", "i", "t", "o", "r", "i", "n", "g", " ", "A", "(", "1",
          "6", ")", ",", " ", "B", "(", "2", "7", ")", ",", " ", "C",
          "(", "2", "8", ")">>,
      <<"S", "t", "o", "p", "p", "e", "d", ".">> }

\* a channel with no state or with a state that is none of DOWN, UP, HELD
StatelessLines ==
    { <<"A">>,
      <<"c">>,
      <<"B", " ", "L", "E", "F", "T">>,
      <<"C", " ", "F", "I", "R", "E">> }

\* lines with a byte that is not valid UTF-8
DamagedLines ==
    { <<"xFF">>,
      <<"X", "xFF", " ", "D", "O", "W", "N">>,
      <<"xFF", "B", " ", "U", "P">>,
      <<"A", " ", "xFF", "D", "O", "W", "N">> }

TestLines ==
    EventLines \cup RecasedLines \cup BlankLines \cup OtherLines
        \cup StatelessLines \cup DamagedLines

\* a read that ends inside a line, and the read that completes it
ScenarioFirst == <<"A", " ", "D", "O", "W", "N", "\n", "B", " ", "D", "O", "W">>
ScenarioSecond == <<"N", "\n", "A", " ", "U", "P", "\n">>

\* reads that hold two lines: text that is no event, then an event
PairChunks ==
    { <<"X", " ", "D", "O", "W", "N", "\n", "A", " ", "D", "O", "W", "N", "\n">>,
      <<" ", "\n", "B", " ", "U", "P", "\n">>,
      <<"A", "\n", "C", " ", "D", "O", "W", "N", "\n">>,
      <<"xFF", "\n", "A", " ", "H", "E", "L", "D", "\n">>,
      <<"S", "t", "o", "p", "p", "e", "d", ".", "\n", "B", " ", "D", "O", "W", "N", "\n">> }

\* what read_all can return in one poll: one whole line, two lines, or a
\* read cut inside a line
Chunks ==
    {l \o <<NL>> : l \in TestLines} \cup PairChunks \cup {ScenarioFirst, ScenarioSecond}

-----------------------------------------------------------------------------
(* Host: construction *)

\* __init__ / _open: the transport opens, or raises and conn is None
InitHost ==
    /\ conn \in {"open", "None"}
    /\ buffer = <<>>
    /\ left = FALSE
    /\ right = FALSE
    /\ shoot = FALSE
    /\ reported_error = FALSE
    /\ wire = <<>>
    /\ received = <<>>
    /\ handled = <<>>
    /\ logs = 0
    /\ last = "init"
    /\ chunk = <<>>
    /\ chunkLines = <<>>

\* the device writes one more line to the link
DeviceWrite ==
    \E p \in Pieces :
        /\ Len(received) + Len(wire) + Len(p) <= MaxBytes
        /\ wire' = wire \o p
        /\ last' = "write"
        /\ UNCHANGED <<conn, buffer, left, right, shoot, reported_error,
                       received, handled, logs>>

\* (mutation) the connection test is lost
HasConn_Always(c) == TRUE

\* line 85: if not self.conn: return
HasConn(c) == c # "None"

\* (mutation) the new chunk replaces the buffer
Accumulate_Replace(buf, data) == data

\* line 96: self.buffer += data
Accumulate(buf, data) == buf \o data

\* (mutation) every failing read is logged
ShouldLog_Always(reported) == TRUE

\* line 90: if not self.reported_error
ShouldLog(reported) == ~reported

\* update with no connection: returns at once, the transport is not read
UpdateNoConn ==
    /\ ~HasConn(conn)
    /\ last' = "no_conn"
    /\ UNCHANGED <<conn, buffer, left, right, shoot, reported_error,
                   wire, received, handled, logs>>

\* lines 94-99: what update does with the bytes read_all returned
Polled(buf, st, hl, data) ==
    IF data = <<>>
    THEN [buffer |-> buf, st |-> st, handled |-> hl]
    ELSE Drain(Accumulate(buf, data), st, hl)

\* update, read_all returns the first n bytes in flight
UpdateData ==
    /\ HasConn(conn)
    /\ \E n \in 0..Len(wire) :
        LET data == SubSeq(wire, 1, n) IN
        /\ wire' = SubSeq(wire, n + 1, Len(wire))
        /\ received' = received \o data
        /\ LET r == Polled(buffer, Flags, handled, data) IN
                /\ buffer' = r.buffer
                /\ left' = r.st.left
                /\ right' = r.st.right
                /\ shoot' = r.st.shoot
                /\ handled' = r.handled
        /\ last' = IF data = <<>> THEN "no_data"
                   ELSE IF buffer # <<>> /\ NL \in Range(data) THEN "joined"
                   ELSE "data"
    /\ UNCHANGED <<conn, reported_error, logs>>

\* update, read_all returns one of Chunks
PollChunk ==
    /\ HasConn(conn)
    /\ \E data \in Chunks :
        /\ chunk' = data
        /\ LET r == Polled(buffer, Flags, <<>>, data) IN
                /\ buffer' = r.buffer
                /\ left' = r.st.left
                /\ right' = r.st.right
                /\ shoot' = r.st.shoot
                /\ chunkLines' = r.handled
        /\ last' = IF buffer # <<>> /\ NL \in Range(data) THEN "joined" ELSE "data"
    /\ UNCHANGED <<conn, reported_error, wire, received, handled, logs>>

\* update, read_all raises SerialException: logged once, then return
UpdateSerialException ==
    /\ HasConn(conn)
    /\ logs' = IF ShouldLog(reported_error) /\ logs < MaxLogs THEN logs + 1 ELSE logs
    /\ reported_error' = TRUE
    /\ last' = "SerialException"
    /\ UNCHANGED <<conn, buffer, left, right, shoot, wire, received, handled>>

\* update, read_all raises an error that is not a SerialException: the except
\* clause does not match and the error leaves update
UpdateOtherError ==
    /\ HasConn(conn)
    /\ last' = "raised"
    /\ UNCHANGED <<conn, buffer, left, right, shoot, reported_error,
                   wire, received, handled, logs>>

Update == UpdateNoConn \/ UpdateData \/ UpdateSerialException \/ UpdateOtherError

\* (mutation) the flag is read and not cleared
Consume_NoClear(s) == [ret |-> s, shoot |-> s]

\* lines 123-126: the value consume_shot returns and the value it leaves in shoot
Consume(s) == IF s THEN [ret |-> TRUE, shoot |-> FALSE] ELSE [ret |-> FALSE, shoot |-> s]

\* consume_shot
ConsumeShot ==
    /\ shoot' = Consume(shoot).shoot
    /\ last' = IF Consume(shoot).ret THEN "shot" ELSE "no_shot"
    /\ UNCHANGED <<conn, buffer, left, right, reported_error,
                   wire, received, handled, logs>>

-----------------------------------------------------------------------------
(* Device: thonnygame.py *)

DEBOUNCE_MS == 25
HELD_PRINT_INTERVAL_MS == 200
POLL_MS == 10

\* time.ticks_ms() counts modulo this period (MicroPython)
TICKS_PERIOD == 1073741824

\* the value of a timestamp field that holds None
None == -1

Names == {"A", "B", "C"}

\* the clock at boot: far from the wrap, or so that the wrap falls inside the run
BootClocks == {0, TICKS_PERIOD - 15 * POLL_MS}

\* time.ticks_diff(a, b): the signed difference modulo the period
ticks_diff(a, b) ==
    ((a - b + TICKS_PERIOD \div 2) % TICKS_PERIOD) - TICKS_PERIOD \div 2

\* (mutation) no debounce window
DebounceElapsed_NoWait(t, last_change) == ticks_diff(t, last_change) >= 0

\* line 44: the level has been the same for the debounce window
DebounceElapsed(t, last_change) == ticks_diff(t, last_change) >= DEBOUNCE_MS

\* (mutation) the interval must be exceeded, not reached
HeldDue_Late(b, t) ==
    /\ b.stable = 0
    /\ b.pressed_time # None
    /\ ticks_diff(t, b.last_held_print) > HELD_PRINT_INTERVAL_MS

\* lines 66-67: stable is pressed, a press is being timed and the interval has passed
HeldDue(b, t) ==
    /\ b.stable = 0
    /\ b.pressed_time # None
    /\ ticks_diff(t, b.last_held_print) >= HELD_PRINT_INTERVAL_MS

\* lines 39-41: a changed raw level restarts the debounce timer
Sample(b, raw, t) ==
    IF raw # b.last_raw THEN [b EXCEPT !.last_raw = raw, !.last_change = t] ELSE b

\* (mutation) the level is committed without comparing it with stable
Commit_NoCompare(b, raw, t) ==
    IF DebounceElapsed(t, b.last_change)
    THEN IF raw = 0
         THEN [b |-> [b EXCEPT !.stable = raw, !.pressed_time = t, !.last_held_print = t],
               out |-> <<"DOWN">>]
         ELSE [b |-> [b EXCEPT !.stable = raw, !.pressed_time = None,
                               !.last_held_print = None],
               out |-> <<"UP">>]
    ELSE [b |-> b, out |-> <<>>]

\* lines 44-63: commit the level as stable, DOWN or UP
Commit(b, raw, t) ==
    IF DebounceElapsed(t, b.last_change) /\ raw # b.stable
    THEN IF raw = 0
         THEN [b |-> [b EXCEPT !.stable = raw, !.pressed_time = t, !.last_held_print = t],
               out |-> <<"DOWN">>]
         ELSE [b |-> [b EXCEPT !.stable = raw, !.pressed_time = None,
                               !.last_held_print = None],
               out |-> <<"UP">>]
    ELSE [b |-> b, out |-> <<>>]

\* (mutation) HELD is sent whenever stable is pressed
Held_EveryTick(b, t) ==
    IF b.stable = 0
    THEN [b |-> [b EXCEPT !.last_held_print = t], out |-> <<"HELD">>]
    ELSE [b |-> b, out |-> <<>>]

\* lines 66-70: the HELD heartbeat
Held(b, t) ==
    IF HeldDue(b, t)
    THEN [b |-> [b EXCEPT !.last_held_print = t], out |-> <<"HELD">>]
    ELSE [b |-> b, out |-> <<>>]

\* SimpleButton.update(current_time) with the pin reading raw
ButtonUpdate(b, raw, t) ==
    LET c == Commit(Sample(b, raw, t), raw, t)
        h == Held(c.b, t)
    IN  [b |-> h.b, out |-> c.out \o h.out]

\* SimpleButton.__init__ with the pin reading raw at clock t
NewButton(name, raw, t) ==
    [name |-> name, last_raw |-> raw, last_change |-> t, stable |-> raw,
     pressed_time |-> None, last_held_print |-> None]

InitDevice ==
    /\ now \in BootClocks
    /\ \E name \in Names, raw \in {0, 1} :
        /\ btn = NewButton(name, raw, now)
        /\ rawSeen = raw
    /\ uptime = 0
    /\ ticks = 0
    /\ sent = <<>>
    /\ constSince = 0
    /\ bounced = FALSE
    /\ lastEdge = "none"
    /\ annAt = None
    /\ edges = 0

\* the device as booted with button A released, for the host-only specifications
InitDeviceIdle == InitDevice /\ now = 0 /\ btn = NewButton("A", 1, 0)

Has(out, w) == \E i \in DOMAIN out : out[i] = w

\* what an observer of the pin and of the lines records on a loop iteration
Observe(raw, out) ==
    /\ rawSeen' = raw
    /\ constSince' = IF raw # rawSeen THEN uptime ELSE constSince
    /\ bounced' = IF raw # rawSeen THEN uptime - constSince < DEBOUNCE_MS ELSE bounced
    /\ sent' = out
    /\ lastEdge' = IF Has(out, "UP") /\ ~Has(out, "DOWN") THEN "UP"
                   ELSE IF Has(out, "DOWN") /\ ~Has(out, "UP") THEN "DOWN"
                   ELSE IF out # <<>> /\ out[Len(out)] \in {"UP", "DOWN"} THEN out[Len(out)]
                   ELSE lastEdge
    /\ edges' = LET n == edges + Cardinality({i \in DOMAIN out : out[i] \in {"DOWN", "UP"}})
                IN  IF n > MaxEdges THEN MaxEdges ELSE n
    /\ annAt' = IF Has(out, "UP") THEN None
                ELSE IF Has(out, "DOWN") \/ Has(out, "HELD") THEN uptime
                ELSE annAt

\* one iteration of the main loop with the pin reading raw:
\* t = now_ms(); update(t); sleep_ms(POLL_MS)
Iterate(raw) ==
    /\ btn' = ButtonUpdate(btn, raw, now).b
    /\ Observe(raw, ButtonUpdate(btn, raw, now).out)
    /\ now' = (now + POLL_MS) % TICKS_PERIOD
    /\ uptime' = uptime + POLL_MS
    /\ ticks' = ticks + 1

\* the device alone
Tick ==
    /\ ticks < MaxTicks
    /\ \E raw \in {0, 1} : Iterate(raw)

\* send(msg): the bytes uart.write puts on the link for the lines of one iteration
Text == [DOWN |-> DOWN, UP |-> UP, HELD |-> HELD]

RECURSIVE Encode(_, _)
Encode(name, out) ==
    IF out = <<>> THEN <<>>
    ELSE <<name, " ">> \o Text[Head(out)] \o <<NL>> \o Encode(name, Tail(out))

-----------------------------------------------------------------------------
(* Host: the game loop of main, as far as shooting goes.  Times are in      *)
(* milliseconds (main keeps seconds).  An obstacle needs more than 90       *)
(* frames to fall from the top to the player, so within the time the bounds *)
(* allow game_over stays False.                                             *)

SHOT_COOLDOWN_MS == 500

\* clock.tick(60)
FPS == 60
FrameMs == 1000 \div FPS

WIDTH == 900
HEIGHT == 600
PLAYER_SIZE == 50
OBSTACLE_SIZE == 60
PLAYER_SPEED == 7
OBSTACLE_SPEED == 5
SPAWN_RATE_MS == 350
BULLET_WIDTH == 10
BULLET_HEIGHT == 22
BULLET_SPEED == 14

\* player_rect.y, set by reset_game and never changed
PlayerY == HEIGHT - PLAYER_SIZE - 20

\* what reset_game returns
reset_game ==
    [player_x |-> WIDTH \div 2 - PLAYER_SIZE \div 2,
     obstacles |-> <<>>,
     bullets |-> <<>>,
     score |-> 0,
     game_over |-> FALSE,
     elapsed |-> 0,
     spawn_interval |-> SPAWN_RATE_MS,
     last_shot_time |-> -SHOT_COOLDOWN_MS]

\* reset_game, and the first frame at time 0
InitGame ==
    /\ elapsed = reset_game.elapsed
    /\ last_shot_time = reset_game.last_shot_time
    /\ frameAt = 0
    /\ fired = 0
    /\ rawChanges = 0
    /\ pressShots = 0
    /\ pressLines = 0
    /\ pc = "tick"
    /\ player_x = reset_game.player_x
    /\ obstacles = reset_game.obstacles
    /\ bullets = reset_game.bullets
    /\ score = reset_game.score
    /\ game_over = reset_game.game_over
    /\ spawn_interval = reset_game.spawn_interval
    /\ frames = 0
    /\ events = <<>>
    /\ keys = {}
    /\ calls = <<>>
    /\ hits = <<>>
    /\ firedAt = None

\* (mutation) no cooldown
MayFire_NoCooldown(shoot_requested, el, lst) == shoot_requested

\* line 201: a shot is asked for and the cooldown has passed
MayFire(shoot_requested, el, lst) == shoot_requested /\ el - lst >= SHOT_COOLDOWN_MS

CountLines(hl, words) ==
    Cardinality({i \in DOMAIN hl :
        LET parts == Split(Upper(hl[i]))
        IN  Len(parts) > 1 /\ parts[1] = <<"C">> /\ parts[2] \in words})

\* one iteration of the game loop (lines 175-203) with keys[K_SPACE] = space:
\* update, then shoot_requested = keys[K_SPACE] or consume_shot()
Frame(space) ==
    /\ frameAt <= uptime
    /\  LET p == Polled(buffer, Flags, <<>>, wire)
            el == elapsed + FrameMs
            c == IF space THEN [ret |-> FALSE, shoot |-> p.st.shoot]
                 ELSE Consume(p.st.shoot)
            fire == MayFire(space \/ c.ret, el, last_shot_time)
            downs == CountLines(p.handled, {DOWN})
            lines == CountLines(p.handled, {DOWN, HELD})
        IN  /\ wire' = <<>>
            /\ buffer' = p.buffer
            /\ left' = p.st.left
            /\ right' = p.st.right
            /\ shoot' = c.shoot
            /\ elapsed' = el
            /\ last_shot_time' = IF fire THEN el ELSE last_shot_time
            /\ fired' = IF fire THEN fired + 1 ELSE fired
            /\ pressLines' = IF downs > 0 THEN 1 ELSE pressLines + lines
            /\ pressShots' = (IF downs > 0 THEN 0 ELSE pressShots)
                              + (IF fire /\ c.ret THEN 1 ELSE 0)
    /\ frameAt' = frameAt + FrameMs
    /\ UNCHANGED <<conn, reported_error, received, handled, logs, last>>

\* one iteration of the device loop, its lines written to the link
LinkTick ==
    /\ ticks < MaxLinkTicks
    /\ uptime <= frameAt
    /\ \E raw \in {0, 1} :
        /\ raw # rawSeen => rawChanges < MaxRawChanges
        /\ rawChanges' = IF raw # rawSeen THEN rawChanges + 1 ELSE rawChanges
        /\ Iterate(raw)
        /\ wire' = wire \o Encode(btn.name, ButtonUpdate(btn, raw, now).out)
    /\ UNCHANGED <<conn, buffer, left, right, shoot, reported_error,
                   received, handled, logs, last>>

-----------------------------------------------------------------------------
(* Host: the whole loop of main, in four steps: lines 175-177 (tick and     *)
(* update), 179-186 (events), 188-203 (keys, movement, shooting) and        *)
(* 205-241 (the world).  Rendering changes no state.                        *)

\* Iterations of main's loop in one behaviour, after the scene it starts from.
MaxFrames == 3

\* Obstacles alive at once: the spawn timer does not fire beyond this.
MaxObstacles == 3

Max(a, b) == IF a >= b THEN a ELSE b
Min(a, b) == IF a <= b THEN a ELSE b

\* int(q) of the quotient n / d (d > 0): rounds toward zero
Trunc(n, d) == IF n >= 0 THEN n \div d ELSE -((-n) \div d)

\* clamp
clamp(value, min_value, max_value) == Max(min_value, Min(max_value, value))

\* create_obstacle, with the values random gave
create_obstacle(x_pos, immune) == [x |-> x_pos, y |-> -OBSTACLE_SIZE, immune |-> immune]

\* create_bullet for the player at px
create_bullet(px) ==
    [x |-> px + PLAYER_SIZE \div 2 - BULLET_WIDTH \div 2, y |-> PlayerY - BULLET_HEIGHT]

\* pygame.Rect.colliderect of the rectangles (ax, ay, aw, ah) and (bx, by, bw, bh)
colliderect(ax, ay, aw, ah, bx, by, bw, bh) ==
    ax < bx + bw /\ ay < by + bh /\ ax + aw > bx /\ ay + ah > by

HitsBullet(ob, b) ==
    colliderect(ob.x, ob.y, OBSTACLE_SIZE, OBSTACLE_SIZE, b.x, b.y, BULLET_WIDTH, BULLET_HEIGHT)

HitsPlayer(ob, px) ==
    colliderect(ob.x, ob.y, OBSTACLE_SIZE, OBSTACLE_SIZE, px, PlayerY, PLAYER_SIZE, PLAYER_SIZE)

\* the state of main's loop, with the count and time of the bullets created
Game ==
    [player_x |-> player_x, obstacles |-> obstacles, bullets |-> bullets, score |-> score,
     game_over |-> game_over, elapsed |-> elapsed, spawn_interval |-> spawn_interval,
     last_shot_time |-> last_shot_time, fired |-> fired, firedAt |-> firedAt]

SetGame(g) ==
    /\ player_x' = g.player_x
    /\ obstacles' = g.obstacles
    /\ bullets' = g.bullets
    /\ score' = g.score
    /\ game_over' = g.game_over
    /\ elapsed' = g.elapsed
    /\ spawn_interval' = g.spawn_interval
    /\ last_shot_time' = g.last_shot_time
    /\ fired' = g.fired
    /\ firedAt' = g.firedAt

\* line 186: every variable of the game is replaced by what reset_game returns
Reset(g) ==
    [player_x |-> reset_game.player_x, obstacles |-> reset_game.obstacles,
     bullets |-> reset_game.bullets, score |-> reset_game.score,
     game_over |-> reset_game.game_over, elapsed |-> reset_game.elapsed,
     spawn_interval |-> reset_game.spawn_interval,
     last_shot_time |-> reset_game.last_shot_time, fired |-> g.fired, firedAt |-> None]

Quit == [type |-> "QUIT", x |-> 0, immune |-> FALSE]
KeyDownR == [type |-> "KEYDOWN_R", x |-> 0, immune |-> FALSE]
\* the spawn timer's event, with what create_obstacle will draw for it
Spawn(x_pos, immune) == [type |-> "spawn", x |-> x_pos, immune |-> immune]

\* (mutation) the spawn timer is obeyed after the game is over too
SpawnAllowed_Always(over) == TRUE

\* line 183: and not game_over
SpawnAllowed(over) == ~over

\* lines 179-186: the events of one iteration, in order; QUIT leaves the program
RECURSIVE EventLoop(_, _)
EventLoop(g, evs) ==
    IF evs = <<>> THEN [g |-> g, exited |-> FALSE]
    ELSE LET e == Head(evs) IN
         IF e.type = "QUIT" THEN [g |-> g, exited |-> TRUE]
         ELSE LET g1 == IF e.type = "spawn" /\ SpawnAllowed(g.game_over)
                        THEN [g EXCEPT !.obstacles = Append(@, create_obstacle(e.x, e.immune))]
                        ELSE g
                  g2 == IF e.type = "KEYDOWN_R" /\ g1.game_over THEN Reset(g1) ELSE g1
              IN  EventLoop(g2, Tail(evs))

\* (mutation) the shot is asked for again when the first answer is False
ShootRequested_Twice(space, s) ==
    IF space THEN [ret |-> TRUE, shoot |-> s, calls |-> <<>>]
    ELSE IF Consume(s).ret
         THEN [ret |-> TRUE, shoot |-> Consume(s).shoot, calls |-> <<"consume_shot">>]
         ELSE [ret |-> FALSE, shoot |-> Consume(s).shoot,
               calls |-> <<"consume_shot", "consume_shot">>]

\* line 196: keys[K_SPACE] or consume_shot(): consume_shot is called only when
\* SPACE is not pressed
ShootRequested(space, s) ==
    IF space THEN [ret |-> TRUE, shoot |-> s, calls |-> <<>>]
    ELSE [ret |-> Consume(s).ret, shoot |-> Consume(s).shoot, calls |-> <<"consume_shot">>]

\* lines 190-203 with the keys ks pressed and the controller's flags fl
KeysStep(g, ks, fl) ==
    LET el == g.elapsed + FrameMs
        x1 == IF "LEFT" \in ks \/ fl.left THEN g.player_x - PLAYER_SPEED ELSE g.player_x
        x2 == IF "RIGHT" \in ks \/ fl.right THEN x1 + PLAYER_SPEED ELSE x1
        req == ShootRequested("SPACE" \in ks, fl.shoot)
        x3 == clamp(x2, 0, WIDTH - PLAYER_SIZE)
        fire == MayFire(req.ret, el, g.last_shot_time)
    IN  [g |-> [g EXCEPT !.elapsed = el,
                         !.player_x = x3,
                         !.bullets = IF fire THEN Append(@, create_bullet(x3)) ELSE @,
                         !.last_shot_time = IF fire THEN el ELSE @,
                         !.fired = IF fire THEN @ + 1 ELSE @,
                         !.firedAt = IF fire THEN el ELSE @],
         shoot |-> req.shoot,
         calls |-> (IF "LEFT" \in ks THEN <<>> ELSE <<"left">>)
                   \o (IF "RIGHT" \in ks THEN <<>> ELSE <<"right">>)
                   \o req.calls]

\* line 205: max(250, int(SPAWN_RATE_MS - elapsed * 35)), elapsed in milliseconds
current_spawn(el) == Max(250, Trunc(SPAWN_RATE_MS * 1000 - el * 35, 1000))

\* line 210: min(14, OBSTACLE_SPEED + elapsed * 0.45), in 1/100000 of a pixel
obstacle_speed(el) == Min(14 * 100000, OBSTACLE_SPEED * 100000 + el * 45)

\* line 212: rect.y += obstacle_speed; a Rect keeps integers and drops the fraction
MoveDown(ob, el) == [ob EXCEPT !.y = Trunc(ob.y * 100000 + obstacle_speed(el), 100000)]

\* line 215
MoveUp(b) == [b EXCEPT !.y = b.y - BULLET_SPEED]

\* (mutation) red obstacles can be shot too
Shootable_All(ob) == TRUE

\* lines 222-223: the bullets are skipped for a red obstacle
Shootable(ob) == ~ob.immune

\* lines 219-237: the obstacles in order; acc holds survived, bullets_to_remove,
\* score, game_over and the obstacles destroyed so far
RECURSIVE ObstacleLoop(_, _, _, _)
ObstacleLoop(obs, bs, px, acc) ==
    IF obs = <<>> THEN acc
    ELSE LET ob == Head(obs)
             hit == {i \in DOMAIN bs : Shootable(ob) /\ HitsBullet(ob, bs[i])}
         IN  IF hit # {}
             THEN LET i == CHOOSE k \in hit : \A j \in hit : k <= j
                  IN  ObstacleLoop(Tail(obs), bs, px,
                          [acc EXCEPT !.remove = @ \cup {i},
                                      !.score = @ + 1000,
                                      !.hits = Append(@, [ob |-> ob, bullet |-> i])])
             ELSE IF HitsPlayer(ob, px)
             THEN [acc EXCEPT !.game_over = TRUE]
             ELSE IF ob.y > HEIGHT
             THEN ObstacleLoop(Tail(obs), bs, px, [acc EXCEPT !.score = @ + 1000])
             ELSE ObstacleLoop(Tail(obs), bs, px, [acc EXCEPT !.survived = Append(@, ob)])

\* the elements of s whose index is in idx, in order
Keep(s, idx) ==
    [k \in 1..Cardinality(idx) |->
        s[CHOOSE i \in idx : Cardinality({j \in idx : j <= i}) = k]]

\* lines 205-241
WorldStep(g) ==
    LET obs == [k \in DOMAIN g.obstacles |-> MoveDown(g.obstacles[k], g.elapsed)]
        bs == [k \in DOMAIN g.bullets |-> MoveUp(g.bullets[k])]
        r == ObstacleLoop(obs, bs, g.player_x,
                 [survived |-> <<>>, remove |-> {}, score |-> g.score,
                  game_over |-> g.game_over, hits |-> <<>>])
    IN  [g |-> [g EXCEPT !.spawn_interval = current_spawn(g.elapsed),
                         !.obstacles = r.survived,
                         !.bullets = Keep(bs, {i \in DOMAIN bs :
                                         i \notin r.remove /\ bs[i].y + BULLET_HEIGHT > 0}),
                         !.score = r.score + 2 * FrameMs,
                         !.game_over = r.game_over],
         hits |-> r.hits]

\* one whole iteration with the controller silent: the events evs, the keys ks
FrameOf(g, evs, ks) ==
    LET e == EventLoop(g, evs).g
    IN  IF e.game_over THEN e ELSE WorldStep(KeysStep(e, ks, NoFlags).g).g

\* iterations with no event and no key until the first obstacle is at y0 or below
RECURSIVE IdleUntilY(_, _)
IdleUntilY(g, y0) ==
    IF g.obstacles = <<>> \/ g.obstacles[1].y >= y0 \/ g.game_over THEN g
    ELSE IdleUntilY(FrameOf(g, <<>>, {}), y0)

\* iterations with no event and no key until elapsed is t or more
RECURSIVE IdleUntil(_, _)
IdleUntil(g, t) ==
    IF g.elapsed >= t \/ g.game_over THEN g ELSE IdleUntil(FrameOf(g, <<>>, {}), t)

NewGame == Reset([fired |-> 0])

\* States the game reaches from reset_game:
\* the game just started;
\* a red obstacle above the player and about to reach it, a white one behind it;
\* a white, a red and a white obstacle side by side, above the player in the line of fire;
\* a bullet was fired in the first iteration and its cooldown is about to end;
\* a white obstacle beside the player about to leave the screen.
Scenes ==
    { NewGame,
      IdleUntilY(FrameOf(IdleUntilY(FrameOf(NewGame, <<Spawn(430, TRUE)>>, {}), 0),
                         <<Spawn(440, FALSE)>>, {}), 466),
      IdleUntilY(FrameOf(NewGame, <<Spawn(430, FALSE), Spawn(440, TRUE), Spawn(450, FALSE)>>,
                         {}), 420),
      IdleUntil(FrameOf(NewGame, <<>>, {"SPACE"}), SHOT_COOLDOWN_MS - FrameMs),
      IdleUntilY(FrameOf(NewGame, <<Spawn(0, FALSE)>>, {}), HEIGHT - 4) }

\* main before its loop, at one of Scenes
InitScene ==
    /\ frameAt = 0
    /\ rawChanges = 0
    /\ pressShots = 0
    /\ pressLines = 0
    /\ pc = "tick"
    /\ frames = 0
    /\ events = <<>>
    /\ keys = {}
    /\ calls = <<>>
    /\ hits = <<>>
    /\ \E g \in Scenes :
        /\ player_x = g.player_x
        /\ obstacles = g.obstacles
        /\ bullets = g.bullets
        /\ score = g.score
        /\ game_over = g.game_over
        /\ elapsed = g.elapsed
        /\ spawn_interval = g.spawn_interval
        /\ last_shot_time = g.last_shot_time
        /\ fired = g.fired
        /\ firedAt = g.firedAt

\* what the link delivers to one call of update in the game
GameData ==
    { <<>>,
      <<"C", " ", "D", "O", "W", "N", "\n">>,
      <<"A", " ", "H", "E", "L", "D", "\n">> }

\* what pygame.event.get() returns in one iteration
EventLists ==
    { <<>>, <<KeyDownR>>, <<Quit>>, <<Spawn(430, TRUE)>>,
      <<KeyDownR, Spawn(430, FALSE)>>, <<Spawn(430, FALSE), KeyDownR>> }

\* what pygame.key.get_pressed() reports: LEFT is K_LEFT or K_a, RIGHT is K_RIGHT or K_d
KeySets == { {}, {"LEFT"}, {"SPACE"}, {"RIGHT", "SPACE"} }

\* lines 175-177: clock.tick, then serial_controller.update()
LoopPoll ==
    /\ pc = "tick"
    /\ frames < MaxFrames
    /\ HasConn(conn)
    /\ \E data \in GameData :
        LET r == Polled(buffer, Flags, <<>>, data) IN
            /\ buffer' = r.buffer
            /\ left' = r.st.left
            /\ right' = r.st.right
            /\ shoot' = r.st.shoot
    /\ frames' = frames + 1
    /\ calls' = Append(calls, "update")
    /\ keys' = {}
    /\ hits' = <<>>
    /\ pc' = "events"
    /\ UNCHANGED <<conn, reported_error, wire, received, handled, logs, last, lineVars>>
    /\ UNCHANGED <<player_x, obstacles, bullets, score, game_over, spawn_interval,
                   elapsed, last_shot_time, fired, firedAt, events>>

\* lines 179-186
LoopEvents ==
    /\ pc = "events"
    /\ \E evs \in EventLists :
        /\ (\E i \in DOMAIN evs : evs[i].type = "spawn") => Len(obstacles) < MaxObstacles
        /\ events' = evs
        /\ SetGame(EventLoop(Game, evs).g)
        /\ pc' = IF EventLoop(Game, evs).exited THEN "exited" ELSE "keys"
    /\ UNCHANGED <<hostVars, lineVars, frames, keys, calls, hits>>

\* lines 188-203; with game_over the iteration ends here (lines 243-257 draw)
LoopKeys ==
    /\ pc = "keys"
    /\ events' = <<>>
    /\ \E ks \in KeySets :
        /\ keys' = ks
        /\ IF game_over
           THEN /\ SetGame(Game)
                /\ shoot' = shoot
                /\ calls' = <<>>
                /\ pc' = "tick"
           ELSE LET r == KeysStep(Game, ks, Flags) IN
                /\ SetGame(r.g)
                /\ shoot' = r.shoot
                /\ calls' = calls \o r.calls
                /\ pc' = "world"
    /\ UNCHANGED <<conn, buffer, left, right, reported_error, wire, received, handled,
                   logs, last, lineVars, frames, hits>>

\* lines 205-241, and the end of the iteration
LoopWorld ==
    /\ pc = "world"
    /\ SetGame(WorldStep(Game).g)
    /\ hits' = WorldStep(Game).hits
    /\ calls' = <<>>
    /\ pc' = "tick"
    /\ UNCHANGED <<hostVars, lineVars, frames, events, keys>>

-----------------------------------------------------------------------------
(* Specifications *)

\* the controller fed by the link: update only
NextChunks ==
    \/ DeviceWrite /\ UNCHANGED <<devVars, linkVars>>
    \/ UpdateNoConn /\ UNCHANGED <<devVars, linkVars>>
    \/ UpdateData /\ UNCHANGED <<devVars, linkVars>>
InitChunks == InitHost /\ InitDeviceIdle /\ InitGame
SpecChunks == InitChunks /\ [][NextChunks]_vars

\* the controller with every call and every read outcome
NextSerial ==
    \/ DeviceWrite /\ UNCHANGED <<devVars, linkVars>>
    \/ UpdateNoConn /\ UNCHANGED <<devVars, linkVars>>
    \/ UpdateData /\ UNCHANGED <<devVars, linkVars>>
    \/ UpdateSerialException /\ UNCHANGED <<devVars, linkVars>>
    \/ UpdateOtherError /\ UNCHANGED <<devVars, linkVars>>
    \/ ConsumeShot /\ UNCHANGED <<devVars, linkVars>>
InitSerial == InitHost /\ InitDeviceIdle /\ InitGame
SpecSerial == InitSerial /\ [][NextSerial]_vars

\* one button and the device loop
InitHostIdle == InitHost /\ conn = "open"
NextButton == Tick /\ UNCHANGED <<hostVars, linkVars>>
InitButton == InitHostIdle /\ InitDevice /\ InitGame
SpecButton == InitButton /\ [][NextButton]_vars

\* button C, the link and the game loop; the keyboard is not touched
NextLink ==
    \/ LinkTick /\ UNCHANGED <<gameVars, lineVars, worldVars>>
    \/ Frame(FALSE) /\ UNCHANGED <<devVars, rawChanges, lineVars, worldVars>>
InitLink == InitHostIdle /\ InitDevice /\ btn.name = "C" /\ InitGame
SpecLink == InitLink /\ [][NextLink]_vars

\* the whole game loop, the controller polled in it
NextGame ==
    \/ LoopPoll /\ UNCHANGED <<devVars, rawChanges, frameAt, pressShots, pressLines>>
    \/ LoopEvents /\ UNCHANGED <<devVars, rawChanges, frameAt, pressShots, pressLines>>
    \/ LoopKeys /\ UNCHANGED <<devVars, rawChanges, frameAt, pressShots, pressLines>>
    \/ LoopWorld /\ UNCHANGED <<devVars, rawChanges, frameAt, pressShots, pressLines>>
InitMain == InitHostIdle /\ InitDeviceIdle /\ InitScene
SpecGame == InitMain /\ [][NextGame]_vars

\* line 77 of thonnygame.py: the line the device sends before its loop
StartedLine ==
    <<"S", "t", "a", "r", "t", "e", "d", " ", "x2014", " ", "m", "o", "n", "i", "t", "o",
      "r", "i", "n", "g", " ", "A", "(", "1", "6", ")", ",", " ", "B", "(", "2", "7", ")",
      ",", " ", "C", "(", "2", "8", ")", "\n">>

\* button A or B, the link and the game loop; the device has sent its first line
InitMove ==
    /\ InitDevice /\ btn.name \in {"A", "B"}
    /\ InitGame
    /\ conn = "open"
    /\ buffer = <<>>
    /\ left = FALSE
    /\ right = FALSE
    /\ shoot = FALSE
    /\ reported_error = FALSE
    /\ wire = StartedLine
    /\ received = <<>>
    /\ handled = <<>>
    /\ logs = 0
    /\ last = "init"
    /\ chunk = <<>>
    /\ chunkLines = <<>>
SpecMove == InitMove /\ [][NextLink]_vars

\* the controller polled with whole reads, and consume_shot
NextLines ==
    \/ PollChunk /\ UNCHANGED <<devVars, rawChanges, gameVars, worldVars>>
    \/ ConsumeShot /\ UNCHANGED <<devVars, linkVars>>
InitLines == InitHostIdle /\ InitDeviceIdle /\ InitGame
SpecLines == InitLines /\ [][NextLines]_vars

-----------------------------------------------------------------------------
(* Claims about SerialController *)


\* the bytes received so far, delivered as one single chunk to a new controller
OneChunk == Drain(received, NoFlags, <<>>)

\* C1: however the byte stream was cut into read chunks, the lines passed to
\* _handle_line and the values of left, right, shoot and buffer are those of
\* delivering the same bytes as one single chunk.
C1_ChunkInvariance ==
    /\ handled = OneChunk.handled
    /\ buffer = OneChunk.buffer
    /\ Flags = OneChunk.st

\* a read completed a line that an earlier read had begun, and it set a flag
C1_Witness ==
    /\ last = "joined"
    /\ Len(handled) >= 2
    /\ handled[Len(handled)] = <<"A", " ">> \o DOWN
    /\ left

IsShotLine(line) ==
    LET parts == Split(Upper(line))
    IN  Len(parts) > 1 /\ parts[1] = <<"C">> /\ parts[2] \in {DOWN, HELD}

\* C7: consume_shot is one-shot: with shoot true it returns True and clears
\* shoot; with shoot false it returns False and changes nothing; two calls in a
\* row return True then False; and shoot only becomes true again when a
\* 'C DOWN' or 'C HELD' line is processed.
C7_ConsumeOneShot ==
    /\ [][last' \in {"shot", "no_shot"} =>
            /\ shoot => (last' = "shot" /\ ~shoot')
            /\ ~shoot => (last' = "no_shot" /\ ~shoot')
            /\ last = "shot" => last' = "no_shot"
            /\ UNCHANGED <<conn, buffer, left, right, reported_error>>]_vars
    /\ [][(~shoot /\ shoot') =>
            \E i \in (Len(handled) + 1)..Len(handled') : IsShotLine(handled'[i])]_vars

\* consume_shot has just returned False right after returning True for a C DOWN
C7_Witness ==
    /\ last = "no_shot"
    /\ ~shoot
    /\ handled = << <<"C", " ">> \o DOWN >>

\* C8: update never raises, whatever the transport read does.
C8_UpdateNeverRaises == last # "raised"

\* C9: when the transport failed to open, left and right stay False,
\* consume_shot never returns True, the transport is never read and nothing
\* is raised.
C9_NoTransport ==
    conn = "None" =>
        /\ ~left /\ ~right /\ ~shoot
        /\ received = <<>> /\ handled = <<>> /\ buffer = <<>>
        /\ logs = 0 /\ ~reported_error
        /\ last \in {"init", "write", "no_conn", "no_shot"}

\* no transport, the device has written a whole stream, update was called
C9_Witness ==
    /\ conn = "None"
    /\ Len(wire) = MaxBytes
    /\ last = "no_conn"

\* C10: a failing read leaves left, right, shoot and buffer as they were, the
\* connection is never closed or dropped, and "Disconnected" is logged at most
\* once.
C10_ReadErrorKeepsState ==
    /\ [][last' \in {"SerialException", "raised"} =>
            UNCHANGED <<left, right, shoot, buffer, conn, wire, received, handled>>]_vars
    /\ [][conn' = conn]_vars
    /\ [](logs <= 1)

\* after a failing read (logged once) a later read returned bytes that were
\* processed, with the flags of before the failure still there
C10_Witness ==
    /\ reported_error
    /\ logs = 1
    /\ last = "joined"
    /\ left
    /\ Len(handled) >= 2

-----------------------------------------------------------------------------
(* Claims about the line protocol, under SpecLines *)

Channels == {<<"A">>, <<"B">>, <<"C">>}
States == {DOWN, HELD, UP}

\* the line is an event: a channel and a state, in any letter case
IsEvent(t) ==
    LET p == Split(Upper(t))
    IN  Len(p) >= 2 /\ p[1] \in Channels /\ p[2] \in States

IsEventOf(t, ch, sts) ==
    LET p == Split(Upper(t))
    IN  Len(p) >= 2 /\ p[1] = ch /\ p[2] \in sts

\* what the protocol says a line does to the flags
Effect(st, t) ==
    IF IsEventOf(t, <<"A">>, {DOWN, HELD}) THEN [st EXCEPT !.left = TRUE]
    ELSE IF IsEventOf(t, <<"A">>, {UP}) THEN [st EXCEPT !.left = FALSE]
    ELSE IF IsEventOf(t, <<"B">>, {DOWN, HELD}) THEN [st EXCEPT !.right = TRUE]
    ELSE IF IsEventOf(t, <<"B">>, {UP}) THEN [st EXCEPT !.right = FALSE]
    ELSE IF IsEventOf(t, <<"C">>, {DOWN, HELD}) THEN [st EXCEPT !.shoot = TRUE]
    ELSE st

RECURSIVE Effects(_, _)
Effects(st, ts) == IF ts = <<>> THEN st ELSE Effects(Effect(st, Head(ts)), Tail(ts))

\* the step is a call of update that read a chunk
PollStep == last' \in {"data", "joined"}

\* the indices of the newline bytes of bs
NLs(bs) == {i \in DOMAIN bs : bs[i] = NL}

Largest(S) == CHOOSE i \in S : \A j \in S : j <= i

\* the bytes after the last newline of bs
AfterLastNL(bs) == SubSeq(bs, Largest(NLs(bs) \cup {0}) + 1, Len(bs))

\* the lines of bs that a newline ends, as bytes, in order
RawLines(bs) ==
    [k \in 1..Cardinality(NLs(bs)) |->
        LET i == CHOOSE n \in NLs(bs) : Cardinality({j \in NLs(bs) : j <= n}) = k
        IN  SubSeq(bs, Largest({j \in NLs(bs) : j < i} \cup {0}) + 1, i - 1)]

TextOf(raw) == Strip(Decode(raw))

\* the flags change
FlagsStep == <<left, right, shoot>>' # <<left, right, shoot>>

\* the kinds of line C11 lists, read off the bytes of the line
BlankLine(raw) == \A i \in DOMAIN raw : raw[i] \in Whitespace
NoChannel(raw) == Split(Upper(raw)) # <<>> /\ Split(Upper(raw))[1] \notin Channels
NoState(raw) ==
    LET p == Split(Upper(raw))
    IN  p # <<>> /\ p[1] \in Channels /\ (Len(p) < 2 \/ p[2] \notin States)
Undecodable(raw) == "xFF" \in Range(raw)

\* C11 as stated: a line that is empty or blank, or whose first token is no
\* channel, or whose channel has no known state, or that holds undecodable
\* bytes, leaves left, right and shoot unchanged.
C11_NoEventNoChange ==
    [][(PollStep /\ buffer = <<>> /\ Len(RawLines(chunk')) = 1) =>
        LET raw == RawLines(chunk')[1]
        IN  (BlankLine(raw) \/ NoChannel(raw) \/ NoState(raw) \/ Undecodable(raw))
                => ~FlagsStep]_vars

\* C11 as amended: undecodable bytes are dropped from the line and what is
\* left is handled as the line; a line that then is empty or blank, or whose
\* first token is no channel, or whose channel has no known state, leaves
\* left, right and shoot unchanged, and the lines after it are handled as if
\* it had not been there.
C11_NoEventAfterDecoding ==
    [][PollStep =>
        LET raws == RawLines(buffer \o chunk')
        IN  /\ chunkLines' = [k \in DOMAIN raws |-> TextOf(raws[k])]
            /\ buffer' = AfterLastNL(buffer \o chunk')
            /\ (\A k \in DOMAIN raws : ~IsEvent(TextOf(raws[k]))) => ~FlagsStep
            /\ (Len(raws) = 2 /\ ~IsEvent(TextOf(raws[1])))
                    => Flags' = Effect(Flags, TextOf(raws[2]))]_vars

\* a line with an undecodable byte and no channel has been handled, and the
\* three flags set before it are still set
C11_Witness ==
    /\ chunk = <<"X", "xFF", " ", "D", "O", "W", "N", "\n">>
    /\ chunkLines = << <<"X", " ">> \o DOWN >>
    /\ left /\ right /\ shoot

\* C12: after every update the buffer holds the bytes received after the last
\* newline and no newline, and the flags are those of the complete lines: a
\* line cut by a read takes effect when its newline arrives.  Reading
\* "A DOWN\nB DOW" sets left and leaves right; reading "N\nA UP\n" next sets
\* right and clears left.
C12_PartialLineWaits ==
    /\ [][PollStep =>
            /\ buffer' = AfterLastNL(buffer \o chunk')
            /\ NL \notin Range(buffer')
            /\ Flags' = Effects(Flags, [k \in DOMAIN RawLines(buffer \o chunk') |->
                                            TextOf(RawLines(buffer \o chunk')[k])])]_vars
    /\ [][(PollStep /\ buffer = <<>> /\ chunk' = ScenarioFirst) =>
            /\ left' /\ right' = right
            /\ buffer' = <<"B", " ", "D", "O", "W">>]_vars
    /\ [][(PollStep /\ chunk = ScenarioFirst /\ buffer = <<"B", " ", "D", "O", "W">>
                    /\ chunk' = ScenarioSecond) =>
            /\ right' /\ ~left'
            /\ buffer' = <<>>]_vars

\* the second read of the scenario has completed B DOWN and handled A UP
C12_Witness ==
    /\ chunk = ScenarioSecond
    /\ chunkLines = << <<"B", " ">> \o DOWN, <<"A", " ">> \o UP >>
    /\ last = "joined"
    /\ right /\ ~left
    /\ buffer = <<>>

\* C13: a DOWN or HELD line of channel A or B sets its flag and an UP line
\* clears it, whatever the flag was; the same line twice in a row does what it
\* does once; a set flag stays set until an UP line of its channel; a line of
\* one channel changes neither the other channel's flag nor shoot.
C13_MovementFlagsLevel ==
    /\ [][(PollStep /\ Len(chunkLines') = 1) =>
            LET t == chunkLines'[1] IN
            /\ IsEventOf(t, <<"A">>, States) =>
                    /\ left' = IsEventOf(t, <<"A">>, {DOWN, HELD})
                    /\ right' = right /\ shoot' = shoot
            /\ IsEventOf(t, <<"B">>, States) =>
                    /\ right' = IsEventOf(t, <<"B">>, {DOWN, HELD})
                    /\ left' = left /\ shoot' = shoot
            /\ IsEventOf(t, <<"C">>, States) => left' = left /\ right' = right
            /\ (last \in {"data", "joined"} /\ chunkLines = chunkLines') => ~FlagsStep]_vars
    /\ [][(left /\ ~left') =>
            PollStep /\ \E k \in DOMAIN chunkLines' : IsEventOf(chunkLines'[k], <<"A">>, {UP})]_vars
    /\ [][(right /\ ~right') =>
            PollStep /\ \E k \in DOMAIN chunkLines' : IsEventOf(chunkLines'[k], <<"B">>, {UP})]_vars

\* A HELD has been handled with right and shoot set: left is set, right and
\* shoot are as they were
C13_Witness ==
    /\ chunkLines = << <<"A", " ">> \o HELD >>
    /\ last = "data"
    /\ left /\ right /\ shoot

\* C14: a C DOWN or C HELD line sets shoot, a C UP line changes nothing, and
\* a set shoot stays set over every later poll until consume_shot is called.
C14_ShotStaysPending ==
    /\ [][PollStep =>
            shoot' = (shoot \/ \E k \in DOMAIN chunkLines' :
                                    IsEventOf(chunkLines'[k], <<"C">>, {DOWN, HELD}))]_vars
    /\ [][(PollStep /\ \A k \in DOMAIN chunkLines' : IsEventOf(chunkLines'[k], <<"C">>, {UP}))
            => ~FlagsStep]_vars
    /\ [][(shoot /\ ~shoot') => last' = "shot"]_vars

\* the shot asked for before is still pending after C UP was handled
C14_Witness ==
    /\ chunkLines = << <<"C", " ">> \o UP >>
    /\ last = "data"
    /\ shoot

CaseForms(c) ==
    {c} \cup (IF c \in Range(LowerCase) THEN {UpperOf[c]} ELSE {})
        \cup {LowerCase[i] : i \in {j \in 1..26 : UpperCase[j] = c}}

\* every way of writing the letters of t in upper or lower case
RECURSIVE Recasings(_)
Recasings(t) ==
    IF t = <<>> THEN {<<>>}
    ELSE {<<c>> \o r : c \in CaseForms(Head(t)), r \in Recasings(Tail(t))}

Lower(t) == [i \in DOMAIN t |-> CHOOSE c \in CaseForms(t[i]) : c \notin Range(UpperCase)]

\* C15: the parsing does not depend on letter case: from the same flags, a
\* line and every re-casing of it give the same flags.
C15_CaseInsensitive ==
    [][(PollStep /\ buffer = <<>> /\ Len(chunkLines') = 1) =>
        LET t == chunkLines'[1]
            forms == IF Len(t) <= MaxRecased THEN Recasings(t) ELSE {Upper(t), Lower(t)}
        IN  \A r \in forms : HandleLine(Flags, r) = Flags']_vars

\* 'b hElD' has been handled and has set right
C15_Witness ==
    /\ chunkLines = << <<"b", " ", "h", "E", "l", "D">> >>
    /\ right
    /\ ~left

-----------------------------------------------------------------------------
(* Claims about SimpleButton *)

\* the step is a loop iteration of the device
TickStep == ticks' = ticks + 1

SentEdge(out) == Has(out, "DOWN") \/ Has(out, "UP")

\* uptime of the last loop iteration done
LastTickAt == uptime - POLL_MS

\* C2: a loop iteration sends DOWN or UP if and only if the sampled level has
\* been the same for at least DEBOUNCE_MS since its last observed change and
\* differs from stable; otherwise nothing is sent and stable is unchanged.
C2_DebouncedTransition ==
    [][TickStep =>
        LET constantFor == uptime - constSince'
            edge == SentEdge(sent')
        IN  /\ edge <=> (constantFor >= DEBOUNCE_MS /\ rawSeen' # btn.stable)
            /\ ~edge => btn'.stable = btn.stable
            /\ edge => /\ btn'.stable = rawSeen'
                       /\ Has(sent', "DOWN") <=> rawSeen' = 0
                       /\ Has(sent', "UP") <=> rawSeen' = 1]_vars

\* DOWN is sent, after an UP, for a press that began with a bounce
C2_Witness == Has(sent, "DOWN") /\ bounced /\ edges >= 2

\* C4 as stated: whenever stable is pressed, a HELD follows the last
\* announcement (or the construction, when nothing was announced yet) as soon
\* as HELD_PRINT_INTERVAL_MS have passed, also for a button pressed at
\* construction.
C4_HeldWheneverPressed ==
    (ticks > 0 /\ btn.stable = 0) =>
        LastTickAt - (IF annAt = None THEN 0 ELSE annAt) < HELD_PRINT_INTERVAL_MS

\* C4 as amended: after a DOWN and until the UP, a HELD follows the last DOWN
\* or HELD as soon as HELD_PRINT_INTERVAL_MS have passed; a button pressed at
\* construction is stable-pressed without a DOWN and sends no HELD.
C4_HeldAfterDown ==
    /\ lastEdge = "DOWN" =>
          /\ btn.stable = 0
          /\ annAt # None
          /\ LastTickAt - annAt < HELD_PRINT_INTERVAL_MS
    /\ lastEdge = "none" => annAt = None /\ ~Has(sent, "HELD")

\* the second HELD of one press has just been sent
C4_Witness ==
    /\ sent = <<"HELD">>
    /\ lastEdge = "DOWN"
    /\ ticks_diff(btn.last_held_print, btn.pressed_time) = 2 * HELD_PRINT_INTERVAL_MS

\* C5: HELD is sent only on a loop iteration that leaves stable pressed, never
\* with a DOWN or an UP, never between an UP and the next DOWN, and at least
\* HELD_PRINT_INTERVAL_MS after the DOWN or HELD before it.
C5_HeldRateLimited ==
    [][(TickStep /\ Has(sent', "HELD")) =>
        /\ btn'.stable = 0
        /\ ~SentEdge(sent')
        /\ Len(sent') = 1
        /\ lastEdge # "UP"
        /\ annAt # None => uptime - annAt >= HELD_PRINT_INTERVAL_MS]_vars

\* the first HELD of a press, HELD_PRINT_INTERVAL_MS after its DOWN
C5_Witness ==
    /\ sent = <<"HELD">>
    /\ btn.stable = 0
    /\ ticks_diff(btn.last_held_print, btn.pressed_time) = HELD_PRINT_INTERVAL_MS

\* C6: DOWN and UP alternate: no DOWN is sent when the last transition sent
\* was a DOWN, and no UP when it was an UP.
C6_DownUpAlternate ==
    [][TickStep =>
        /\ Has(sent', "DOWN") => lastEdge # "DOWN"
        /\ Has(sent', "UP") => lastEdge # "UP"
        /\ Cardinality({i \in DOMAIN sent' : sent'[i] \in {"DOWN", "UP"}}) <= 1]_vars

\* DOWN, UP and DOWN again have been sent
C6_Witness == edges >= 3 /\ lastEdge = "DOWN" /\ Has(sent, "DOWN")

-----------------------------------------------------------------------------
(* Claims about the game loop, under SpecGame *)

CountOf(sq, w) == Cardinality({i \in DOMAIN sq : sq[i] = w})

\* C16: in every iteration of the loop update is called exactly once, before
\* any use of left, right or shoot, and consume_shot is called at most once.
C16_UpdateOnceThenReads ==
    /\ CountOf(calls, "update") <= 1
    /\ CountOf(calls, "consume_shot") <= 1
    /\ \A i \in DOMAIN calls :
            calls[i] \in {"left", "right", "consume_shot"} =>
                \E j \in 1..(i - 1) : calls[j] = "update"
    /\ pc \in {"events", "keys", "world", "exited"} => CountOf(calls, "update") = 1
    /\ pc = "tick" => calls = <<>>

\* the iteration polled, read both movement flags and consumed a shot that
\* became a bullet
C16_Witness ==
    /\ pc = "world"
    /\ calls = <<"update", "left", "right", "consume_shot">>
    /\ firedAt = elapsed
    /\ ~shoot

\* C17: while game_over is True the player, the obstacles, the bullets, the
\* score and elapsed do not change, whatever the keys, the serial lines and the
\* spawn timer do, and no bullet is created; game_over becomes False only when
\* R is pressed, by reset_game.
C17_GameOverFreezes ==
    /\ [][(game_over /\ game_over') =>
            UNCHANGED <<player_x, obstacles, bullets, score, elapsed, fired>>]_vars
    /\ [][(game_over /\ ~game_over') =>
            /\ pc = "events"
            /\ \E i \in DOMAIN events' : events'[i] = KeyDownR
            /\ elapsed' = reset_game.elapsed
            /\ score' = reset_game.score
            /\ bullets' = reset_game.bullets
            /\ player_x' = reset_game.player_x
            /\ last_shot_time' = reset_game.last_shot_time]_vars
    /\ [][(~game_over /\ game_over') => pc = "world"]_vars

\* the game is over; an iteration with A HELD and C DOWN behind it, RIGHT and
\* SPACE pressed has ended, and the shot is still pending
C17_Witness ==
    /\ game_over
    /\ pc = "tick"
    /\ keys = {"RIGHT", "SPACE"}
    /\ left /\ shoot
    /\ frames >= 2

\* the step is the world part of an iteration (lines 205-241)
WorldPass == pc = "world" /\ pc' = "tick"

\* C18: a red obstacle is never destroyed by a bullet: it stays, adds no
\* score and removes no bullet.  An obstacle is destroyed only if it is not
\* red and overlaps a bullet; it then adds exactly 1 to score and that bullet
\* is removed.
C18_ImmuneNeverDestroyed ==
    [][WorldPass =>
        LET obs == [k \in DOMAIN obstacles |-> MoveDown(obstacles[k], elapsed)]
            bs == [k \in DOMAIN bullets |-> MoveUp(bullets[k])]
            shot == {hits'[k].ob : k \in DOMAIN hits'}
            passed == {k \in DOMAIN obs : obs[k].y > HEIGHT /\ obs[k] \notin shot}
        IN  /\ \A k \in DOMAIN hits' :
                /\ ~hits'[k].ob.immune
                /\ hits'[k].ob \in Range(obs)
                /\ hits'[k].bullet \in DOMAIN bs
                /\ HitsBullet(hits'[k].ob, bs[hits'[k].bullet])
                /\ bs[hits'[k].bullet] \notin Range(bullets')
                /\ hits'[k].ob \notin Range(obstacles')
            /\ ~game_over' =>
                    score' = score + 1000 * Len(hits') + 1000 * Cardinality(passed)
                                + 2 * FrameMs
            /\ \A k \in DOMAIN obs :
                    (obs[k].immune /\ ~game_over' /\ obs[k].y <= HEIGHT)
                        => obs[k] \in Range(obstacles')
            /\ \A i \in DOMAIN bs :
                    ((\A k \in DOMAIN obs : HitsBullet(obs[k], bs[i]) => obs[k].immune)
                        /\ bs[i].y + BULLET_HEIGHT > 0)
                        => bs[i] \in Range(bullets')
            /\ Len(bullets') <= Len(bs)]_vars

\* one bullet met a white, a red and a white obstacle: the two white ones
\* were destroyed with it, the red one is still there
C18_Witness ==
    /\ pc = "tick"
    /\ Len(hits) = 2
    /\ bullets = <<>>
    /\ Len(obstacles) = 1
    /\ obstacles[1].immune

\* the step reads the keys and shoots (lines 188-203) with the game running
KeysPass == pc = "keys" /\ pc' = "world"

\* C19: two bullets of one game are created at least SHOT_COOLDOWN apart in
\* elapsed, whatever SPACE and the serial lines do; a shot consume_shot hands
\* over during the cooldown is dropped: shoot is False after it and no bullet
\* is created.
C19_CooldownBetweenBullets ==
    /\ [][fired' # fired =>
            /\ fired' = fired + 1
            /\ Len(bullets') = Len(bullets) + 1
            /\ firedAt' = elapsed'
            /\ firedAt # None => elapsed' - firedAt >= SHOT_COOLDOWN_MS]_vars
    /\ [][(KeysPass /\ "SPACE" \notin keys' /\ shoot /\ firedAt # None
                /\ elapsed' - firedAt < SHOT_COOLDOWN_MS) =>
            /\ ~shoot'
            /\ fired' = fired
            /\ bullets' = bullets]_vars
    /\ [][firedAt' # firedAt => (fired' # fired \/ firedAt' = None)]_vars

\* the second bullet of a game has been created, from the serial flag
C19_Witness ==
    /\ pc = "world"
    /\ Len(bullets) = 2
    /\ firedAt = elapsed
    /\ "SPACE" \notin keys
    /\ ~shoot

-----------------------------------------------------------------------------
(* Claims about the button, the link and the game loop together *)

\* the host has read and handled every line the device has sent
AllHandled == wire = <<>> /\ buffer = <<>>

\* C20: over a lossless in-order link, whenever the host has handled every
\* line the device has sent, left is set exactly when button A is timing a
\* press (pressed_time is set) and right exactly when button B is: a DOWN
\* sets the flag, HELD lines leave it set, and after the UP it is cleared.
C20_FlagsFollowButtons ==
    AllHandled =>
        /\ left <=> (btn.name = "A" /\ btn.pressed_time # None)
        /\ right <=> (btn.name = "B" /\ btn.pressed_time # None)
        /\ lastEdge = "UP" => ~left /\ ~right

\* the host has handled the HELD that button B sent after its DOWN: right is
\* still set
C20_Witness ==
    /\ AllHandled
    /\ btn.name = "B"
    /\ sent = <<"HELD">>
    /\ right

\* C3 as stated: one press of button C (one DOWN, later one UP) creates at
\* most one bullet from the shoot flag, however long the button is held.
C3_OneBulletPerPress == pressShots <= 1

\* C3 as amended: a press creates at most one bullet from the shoot flag for
\* each DOWN or HELD line it sends: one bullet when it is released before the
\* first HELD, and possibly more when held on.
C3_OneBulletPerLine ==
    /\ pressShots <= pressLines
    /\ fired >= pressShots

\* a press that sent DOWN only has been read as one shot and is over
C3_Witness ==
    /\ pressLines = 1
    /\ pressShots = 1
    /\ lastEdge = "UP"
    /\ ~shoot /\ wire = <<>> /\ ~left /\ ~right

====
